---- MODULE Spec2Model ----
(***************************************************************************)
(* Model of src/app.py: a Flask relay service with three POST handlers     *)
(* (/update, /formats, /download).  Each request is one call c, handled    *)
(* by its own thread of control; the calls share the process-wide          *)
(* configuration and the temporary-file area of the filesystem.            *)
(*                                                                         *)
(* Modelling notes.                                                        *)
(*  - request.get_json() is taken to yield None for an absent body, the    *)
(*    case the handlers' `not data` test is written for.                   *)
(*  - The tool process is the process subprocess.run waits for; argument   *)
(*    strings (URL quoting, output template text) are not represented,     *)
(*    the tool's behaviour being a nondeterministic choice anyway.         *)
(*  - A raised exception that no handler catches leaves the handler and    *)
(*    is answered by the framework: response body "unhandled".             *)
(***************************************************************************)
EXTENDS Integers, Sequences, FiniteSets, TLC

\* ---------------------------------------------------------------- bounds
NumCalls == 2          \* requests handled (concurrently) in one run
MaxFiles == 2          \* files one tool invocation may write
MaxFormats == 1        \* entries of a probe manifest
MaxProbeFormats == 2   \* entries of a manifest when the projection is studied

Calls == 1..NumCalls
DirNames == 1..NumCalls             \* names mkdtemp can draw
NoCall == 0
NoDirName == 0

\* ------------------------------------------------------- the environment
\* os.environ.get: None when unset, else the string (possibly empty).
EnvValues == {"None", "", "s3cret"}
\* headers.get('X-API-KEY'): None when missing, else the string.
HeaderValues == {"None", "", "s3cret", "wrong"}

\* Python truthiness of an optional string.
Falsy(s) == s \in {"None", ""}

\* JSON request bodies, by shape.
\*   absent          no body: get_json() gives None
\*   obj_empty       {}
\*   obj_other       {"x": 1}
\*   obj_url         {"url": " https://example.org/v "}
\*   obj_url_fmtint  {"url": "...", "format_id": 18}
\*   obj_urlint      {"url": 123}
\*   arr_url         ["url"]
\*   num             7
Bodies == {"absent", "obj_empty", "obj_other", "obj_url", "obj_url_fmtint",
           "obj_urlint", "arr_url", "num"}

\* `not data`
NotData(b) == b \in {"absent", "obj_empty"}
\* Variant: the membership test is skipped for an object without the key.
UrlNotIn_skipped(b) ==
  CASE b = "obj_empty" -> "yes"
    [] b \in {"obj_other", "obj_url", "obj_url_fmtint", "obj_urlint", "arr_url"} -> "no"
    [] OTHER -> "raise"
\* `'url' not in data`: "yes", "no", or "raise" (TypeError: int is not iterable)
UrlNotIn(b) ==
  CASE b \in {"obj_empty", "obj_other"} -> "yes"
    [] b \in {"obj_url", "obj_url_fmtint", "obj_urlint", "arr_url"} -> "no"
    [] b = "num" -> "raise"
    [] OTHER -> "raise"
\* `data['url'].strip()`: "ok" or "raise" (list index TypeError, int has no strip)
UrlStrip(b) == IF b \in {"obj_url", "obj_url_fmtint"} THEN "ok" ELSE "raise"
\* ' '.join(command) with data.get('format_id', default) in the list
JoinCommand(b) == IF b = "obj_url_fmtint" THEN "raise" ELSE "ok"

\* What lines 62-66 and 110-114 do with a body: "400", "raise" or "ok".
ValidateBody(b) ==
  IF NotData(b) THEN "400"
  ELSE IF UrlNotIn(b) = "yes" THEN "400"
  ELSE IF UrlNotIn(b) = "raise" THEN "raise"
  ELSE UrlStrip(b)

\* ---------------------------------------------------------------- state
VARIABLES
  CONOHA_UPLOAD_URL,  \* module global, line 23
  CONOHA_API_KEY,     \* module global, line 24
  pc,                 \* pc[c]: where call c is in its handler
  req,                \* req[c]: the request call c is handling
  proc,               \* proc[c]: the subprocess of call c
  temp_dir,           \* temp_dir[c]: name of the call's TemporaryDirectory
  downloaded_files,   \* downloaded_files[c]: result of os.listdir
  post,               \* post[c]: the requests.post of call c
  resp,               \* resp[c]: the response the call produces
  dirs,               \* the temporary directories on disk, by name
  probe_stdouts,      \* what `yt-dlp --dump-json` may print in this run
  hist                \* hist[c]: the steps call c has taken, in order

vars == <<CONOHA_UPLOAD_URL, CONOHA_API_KEY, pc, req, proc, temp_dir,
          downloaded_files, post, resp, dirs, probe_stdouts, hist>>

NoReq == [kind |-> "none", body |-> "absent", key |-> "None"]
NoResp == [status |-> 0, body |-> "none", formats |-> <<>>]
NoFile == [writer |-> NoCall, n |-> 0]
NoPost == [state |-> "none", file |-> NoFile, status |-> 0, body |-> "none"]
NoDir == [exists |-> FALSE, owner |-> NoCall, files |-> {}]

\* jsonify({'status': 'error', 'message': message}), status_code
create_error_response(status_code) ==
  [status |-> status_code, body |-> "envelope", formats |-> <<>>]
\* An exception that leaves the handler: the framework answers 500.
Unhandled == [status |-> 500, body |-> "unhandled", formats |-> <<>>]

\* No request has arrived yet.
InitCalls ==
  /\ pc = [c \in Calls |-> "idle"]
  /\ req = [c \in Calls |-> NoReq]
  /\ proc = [c \in Calls |-> "none"]
  /\ temp_dir = [c \in Calls |-> NoDirName]
  /\ downloaded_files = [c \in Calls |-> <<>>]
  /\ post = [c \in Calls |-> NoPost]
  /\ resp = [c \in Calls |-> NoResp]
  /\ dirs = [d \in DirNames |-> NoDir]
  /\ hist = [c \in Calls |-> <<>>]

Log(c, ev) == hist' = [hist EXCEPT ![c] = Append(@, ev)]
Return(c, r) == /\ resp' = [resp EXCEPT ![c] = r]
                /\ pc' = [pc EXCEPT ![c] = "returned"]

\* subprocess.run(..., check=True, timeout=...) raises on a non-zero exit
\* (CalledProcessError) and on the deadline (TimeoutExpired).
ToolOutcomes == {"ok", "nonzero", "timeout"}
\* Variant: check=True left out, a non-zero exit no longer raises.
RunRaises_unchecked(o) == o = "timeout"
RunRaises(o) == o \in {"nonzero", "timeout"}

\* ------------------------------------------------------------- /update
\* line 41: `not request_api_key or request_api_key != CONOHA_API_KEY`
\* Variant: the `not request_api_key` test left out (None != None is False).
AuthFails_compare_only(k) == k # CONOHA_API_KEY
AuthFails(k) == Falsy(k) \/ k # CONOHA_API_KEY

\* lines 39-42: the key check; on success the handler goes on to line 46.
update_yt_dlp(c) ==
  /\ pc[c] = "idle"
  /\ \E k \in HeaderValues :
       /\ req' = [req EXCEPT ![c] = [kind |-> "update", body |-> "absent", key |-> k]]
       /\ IF AuthFails(k)
          THEN /\ Return(c, create_error_response(401))
               /\ Log(c, "reject")
          ELSE /\ pc' = [pc EXCEPT ![c] = "upd_spawn"]
               /\ Log(c, "auth")
               /\ UNCHANGED resp
  /\ UNCHANGED <<CONOHA_UPLOAD_URL, CONOHA_API_KEY, probe_stdouts, proc, temp_dir,
                 downloaded_files, post, dirs>>

\* line 47: subprocess.run starts pip
update_spawn(c) ==
  /\ pc[c] = "upd_spawn"
  /\ proc' = [proc EXCEPT ![c] = "running"]
  /\ pc' = [pc EXCEPT ![c] = "upd_wait"]
  /\ Log(c, "spawn")
  /\ UNCHANGED <<CONOHA_UPLOAD_URL, CONOHA_API_KEY, probe_stdouts, req, temp_dir,
                 downloaded_files, post, resp, dirs>>

\* lines 47-54: pip exits or the 120 s deadline kills it
update_exit(c) ==
  /\ pc[c] = "upd_wait"
  /\ proc[c] = "running"
  /\ \E o \in ToolOutcomes :
       /\ proc' = [proc EXCEPT ![c] = "exited"]
       /\ Log(c, "exit_" \o o)
       /\ IF RunRaises(o)
          THEN Return(c, create_error_response(500))
          ELSE Return(c, [status |-> 200, body |-> "success", formats |-> <<>>])
  /\ UNCHANGED <<CONOHA_UPLOAD_URL, CONOHA_API_KEY, probe_stdouts, req, temp_dir,
                 downloaded_files, post, dirs>>

\* ------------------------------------------------------------- /formats
NoSize == 0 - 1
\* One entry of the manifest's 'formats' list; "None"/NoSize: key missing.
ProbeEntries ==
  { [format_id |-> "18", resolution |-> "640x360", ext |-> "mp4",
     filesize |-> 1572864, filesize_approx |-> NoSize],
    [format_id |-> "None", resolution |-> "None", ext |-> "m4a",
     filesize |-> NoSize, filesize_approx |-> 3145728] }

RECURSIVE SeqsUpTo(_, _)
SeqsUpTo(S, n) ==
  IF n = 0 THEN {<<>>}
  ELSE LET shorter == SeqsUpTo(S, n - 1)
       IN shorter \cup {Append(q, e) : q \in {r \in shorter : Len(r) = n - 1}, e \in S}

\* What the probe can print: text json.loads rejects, a JSON document that
\* is no object, or a manifest whose 'formats' is the given list.
ProbeStdouts ==
  { [kind |-> "not_json", formats |-> <<>>],
    [kind |-> "not_object", formats |-> <<>>] }
  \cup { [kind |-> "manifest", formats |-> fs] : fs \in SeqsUpTo(ProbeEntries, MaxFormats) }

\* round(filesize / (1024*1024), 2), in hundredths of a MB (round half even)
RoundMB(filesize) ==
  LET num == filesize * 100
      den == 1024 * 1024
      q == num \div den
      r == num % den
  IN IF 2 * r < den THEN q
     ELSE IF 2 * r > den THEN q + 1
     ELSE IF q % 2 = 0 THEN q ELSE q + 1

\* Variant: `or f.get('filesize_approx')` left out.
Descriptor_exact_only(f) ==
  LET resolution == IF f.resolution = "None" THEN "audio only" ELSE f.resolution
      mb == IF f.filesize # NoSize /\ f.filesize # 0 THEN RoundMB(f.filesize) ELSE NoSize
  IN [id |-> f.format_id,
      note |-> [resolution |-> resolution, ext |-> f.ext, mb |-> mb],
      ext |-> f.ext]

\* lines 83-89 and 91-95: one descriptor; mb = NoSize: no size suffix
Descriptor(f) ==
  LET resolution == IF f.resolution = "None" THEN "audio only" ELSE f.resolution
      filesize == IF f.filesize # NoSize /\ f.filesize # 0 THEN f.filesize
                  ELSE f.filesize_approx
      mb == IF filesize # NoSize /\ filesize # 0 THEN RoundMB(filesize) ELSE NoSize
  IN [id |-> f.format_id,
      note |-> [resolution |-> resolution, ext |-> f.ext, mb |-> mb],
      ext |-> f.ext]

\* The process after import: any environment, no request yet, and a probe
\* that may print any of ProbeStdouts at each invocation.
Init ==
  /\ CONOHA_UPLOAD_URL \in EnvValues
  /\ CONOHA_API_KEY \in EnvValues
  /\ probe_stdouts = ProbeStdouts
  /\ InitCalls

\* Manifest entries for the study of the projection: with an exact size,
\* the same without a size, the same with size 0, one with another id and
\* an approximate size only, and one without format_id.
ManifestEntries ==
  { [format_id |-> "18", resolution |-> "640x360", ext |-> "mp4",
     filesize |-> sz, filesize_approx |-> NoSize] : sz \in {1572864, NoSize, 0} }
  \cup
  { [format_id |-> "140", resolution |-> "None", ext |-> "m4a",
     filesize |-> NoSize, filesize_approx |-> 3145728],
    [format_id |-> "None", resolution |-> "None", ext |-> "m4a",
     filesize |-> NoSize, filesize_approx |-> NoSize] }

ManifestStdouts ==
  { [kind |-> "not_json", formats |-> <<>>],
    [kind |-> "not_object", formats |-> <<>>] }
  \cup { [kind |-> "manifest", formats |-> fs] :
           fs \in SeqsUpTo(ManifestEntries, MaxProbeFormats) }

\* The process with nothing configured, and a site whose metadata for the
\* URL does not change during the run: the probe prints the same document
\* at each invocation.
InitProbe ==
  /\ CONOHA_UPLOAD_URL = "None"
  /\ CONOHA_API_KEY = "None"
  /\ \E m \in ManifestStdouts : probe_stdouts = {m}
  /\ InitCalls

\* Variant: the list is built back to front.
SelectableFormats_reversed(formats) ==
  [i \in 1..Len(formats) |-> Descriptor(formats[Len(formats) + 1 - i])]
\* lines 81-95: the loop; f['format_id'] raises KeyError on a missing key
SelectableFormats(formats) == [i \in 1..Len(formats) |-> Descriptor(formats[i])]
FormatsRaise(formats) == \E i \in 1..Len(formats) : formats[i].format_id = "None"

\* Variant: the configuration test of download_video copied in.
get_formats_config_checked(c) ==
  /\ pc[c] = "idle"
  /\ \E b \in Bodies :
       /\ req' = [req EXCEPT ![c] = [kind |-> "formats", body |-> b, key |-> "None"]]
       /\ IF Falsy(CONOHA_UPLOAD_URL) \/ Falsy(CONOHA_API_KEY)
          THEN /\ Return(c, create_error_response(500))
               /\ Log(c, "config_fail")
          ELSE CASE ValidateBody(b) = "400" ->
                      /\ Return(c, create_error_response(400))
                      /\ Log(c, "reject")
                 [] ValidateBody(b) = "raise" ->
                      /\ Return(c, Unhandled)
                      /\ Log(c, "raise")
                 [] OTHER ->
                      /\ pc' = [pc EXCEPT ![c] = "fmt_spawn"]
                      /\ Log(c, "valid")
                      /\ UNCHANGED resp
  /\ UNCHANGED <<CONOHA_UPLOAD_URL, CONOHA_API_KEY, probe_stdouts, proc, temp_dir,
                 downloaded_files, post, dirs>>

\* lines 62-72: body validation
get_formats(c) ==
  /\ pc[c] = "idle"
  /\ \E b \in Bodies :
       /\ req' = [req EXCEPT ![c] = [kind |-> "formats", body |-> b, key |-> "None"]]
       /\ CASE ValidateBody(b) = "400" ->
                 /\ Return(c, create_error_response(400))
                 /\ Log(c, "reject")
            [] ValidateBody(b) = "raise" ->
                 /\ Return(c, Unhandled)
                 /\ Log(c, "raise")
            [] OTHER ->
                 /\ pc' = [pc EXCEPT ![c] = "fmt_spawn"]
                 /\ Log(c, "valid")
                 /\ UNCHANGED resp
  /\ UNCHANGED <<CONOHA_UPLOAD_URL, CONOHA_API_KEY, probe_stdouts, proc, temp_dir,
                 downloaded_files, post, dirs>>

\* lines 75-76: subprocess.run starts the probe
formats_spawn(c) ==
  /\ pc[c] = "fmt_spawn"
  /\ proc' = [proc EXCEPT ![c] = "running"]
  /\ pc' = [pc EXCEPT ![c] = "fmt_wait"]
  /\ Log(c, "spawn")
  /\ UNCHANGED <<CONOHA_UPLOAD_URL, CONOHA_API_KEY, probe_stdouts, req, temp_dir,
                 downloaded_files, post, resp, dirs>>

\* Variant: a module-level set of ids already served, never reset; an id
\* another call has returned is left out.
formats_exit_seen(c) ==
  /\ pc[c] = "fmt_wait"
  /\ proc[c] = "running"
  /\ proc' = [proc EXCEPT ![c] = "exited"]
  /\ \/ \E o \in ToolOutcomes :
          /\ RunRaises(o)
          /\ Log(c, "exit_" \o o)
          /\ Return(c, create_error_response(500))
     \/ \E o \in ToolOutcomes, out \in probe_stdouts :
          /\ ~RunRaises(o)
          /\ Log(c, "exit_" \o o)
          /\ IF out.kind # "manifest" \/ FormatsRaise(out.formats)
             THEN Return(c, create_error_response(500))
             ELSE LET seen == UNION {{resp[o2].formats[i].id :
                                        i \in DOMAIN resp[o2].formats} :
                                      o2 \in Calls \ {c}}
                      fresh(d) == d.id \notin seen
                  IN Return(c, [status |-> 200, body |-> "formats",
                                formats |-> SelectSeq(SelectableFormats(out.formats),
                                                      fresh)])
  /\ UNCHANGED <<CONOHA_UPLOAD_URL, CONOHA_API_KEY, probe_stdouts, req, temp_dir,
                 downloaded_files, post, dirs>>

\* lines 76-99: the probe exits or the 60 s deadline kills it; parse, project
formats_exit(c) ==
  /\ pc[c] = "fmt_wait"
  /\ proc[c] = "running"
  /\ proc' = [proc EXCEPT ![c] = "exited"]
  /\ \/ \E o \in ToolOutcomes :
          /\ RunRaises(o)
          /\ Log(c, "exit_" \o o)
          /\ Return(c, create_error_response(500))
     \/ \E o \in ToolOutcomes, out \in probe_stdouts :
          /\ ~RunRaises(o)
          /\ Log(c, "exit_" \o o)
          /\ IF out.kind # "manifest" \/ FormatsRaise(out.formats)
             THEN Return(c, create_error_response(500))
             ELSE Return(c, [status |-> 200, body |-> "formats",
                             formats |-> SelectableFormats(out.formats)])
  /\ UNCHANGED <<CONOHA_UPLOAD_URL, CONOHA_API_KEY, probe_stdouts, req, temp_dir,
                 downloaded_files, post, dirs>>

\* ------------------------------------------------------------ /download
\* A file on disk: who wrote it and its number.
Files == [writer : Calls, n : 1..MaxFiles]
WrittenBy(c) == {f \in UNION {dirs[d].files : d \in DirNames} : f.writer = c}

\* The orders os.listdir may report a directory's entries in.
Listings(S) == {q \in SeqsUpTo(S, Cardinality(S)) :
                  Len(q) = Cardinality(S) /\ {q[i] : i \in 1..Len(q)} = S}

\* What the upload endpoint can answer.
UploadStatuses == {201, 304, 404}
UploadBodies == {"{ \"id\" : \"xyz\" }", ""}
\* response.json(): the JSON value, or "raise"
JsonLoads(text) == IF text = "" THEN "raise" ELSE "id=xyz"
\* jsonify(value): the text Flask writes
Jsonify(value) == "{\"id\":\"xyz\"}"
\* response.raise_for_status(): HTTPError for 400 <= status < 600
\* Variant: the call to raise_for_status left out.
RaiseForStatus_never(status) == FALSE
RaiseForStatus(status) == 400 <= status /\ status < 600

\* line 107: `not CONOHA_UPLOAD_URL or not CONOHA_API_KEY`
\* Variant: only the upload URL is tested.
ConfigIncomplete_url_only == Falsy(CONOHA_UPLOAD_URL)
ConfigIncomplete == Falsy(CONOHA_UPLOAD_URL) \/ Falsy(CONOHA_API_KEY)

\* lines 107-121: configuration check, then body validation
download_video(c) ==
  /\ pc[c] = "idle"
  /\ \E b \in Bodies :
       /\ req' = [req EXCEPT ![c] = [kind |-> "download", body |-> b, key |-> "None"]]
       /\ IF ConfigIncomplete
          THEN /\ Return(c, create_error_response(500))
               /\ Log(c, "config_fail")
          ELSE CASE ValidateBody(b) = "400" ->
                      /\ Return(c, create_error_response(400))
                      /\ Log(c, "reject")
                 [] ValidateBody(b) = "raise" ->
                      /\ Return(c, Unhandled)
                      /\ Log(c, "raise")
                 [] OTHER ->
                      /\ pc' = [pc EXCEPT ![c] = "dl_mkdtemp"]
                      /\ Log(c, "valid")
                      /\ UNCHANGED resp
  /\ UNCHANGED <<CONOHA_UPLOAD_URL, CONOHA_API_KEY, probe_stdouts, proc, temp_dir,
                 downloaded_files, post, dirs>>

\* tempfile.mkdtemp: a name os.mkdir accepts, i.e. one that is not on disk
\* Variant: a name is drawn without the exclusive os.mkdir.
FreeDirNames_any == DirNames
FreeDirNames == {d \in DirNames : ~dirs[d].exists}

\* line 123: TemporaryDirectory().__enter__
download_mkdtemp(c) ==
  /\ pc[c] = "dl_mkdtemp"
  /\ \E d \in FreeDirNames :
       /\ dirs' = [dirs EXCEPT ![d] = [exists |-> TRUE, owner |-> c, files |-> {}]]
       /\ temp_dir' = [temp_dir EXCEPT ![c] = d]
  /\ pc' = [pc EXCEPT ![c] = "dl_spawn"]
  /\ Log(c, "workspace")
  /\ UNCHANGED <<CONOHA_UPLOAD_URL, CONOHA_API_KEY, probe_stdouts, req, proc,
                 downloaded_files, post, resp>>

\* TemporaryDirectory.__exit__ (line 123, on leaving the with block):
\* rmtree of the tree of that name; a missing tree is not an error.
\* Variant: a plain mkdtemp() that nothing removes.
Cleanup_never(name) == dirs
Cleanup(name) == [dirs EXCEPT ![name] = NoDir]

\* A return inside the with block: the response is built, __exit__ removes
\* the workspace, the handler returns and its locals are gone.
Leave(c, r, ev) ==
  /\ resp' = [resp EXCEPT ![c] = r]
  /\ dirs' = Cleanup(temp_dir[c])
  /\ temp_dir' = [temp_dir EXCEPT ![c] = NoDirName]
  /\ downloaded_files' = [downloaded_files EXCEPT ![c] = <<>>]
  /\ hist' = [hist EXCEPT ![c] = @ \o ev \o <<"teardown">>]
  /\ pc' = [pc EXCEPT ![c] = "returned"]

\* Variant: the tool is started (Popen) and not waited for.
download_spawn_nowait(c) ==
  /\ pc[c] = "dl_spawn"
  /\ IF JoinCommand(req[c].body) = "raise"
     THEN /\ Leave(c, create_error_response(500), <<"raise">>)
          /\ UNCHANGED proc
     ELSE /\ proc' = [proc EXCEPT ![c] = "running"]
          /\ pc' = [pc EXCEPT ![c] = "dl_list"]
          /\ Log(c, "spawn")
          /\ UNCHANGED <<resp, temp_dir, downloaded_files, dirs>>
  /\ UNCHANGED <<CONOHA_UPLOAD_URL, CONOHA_API_KEY, probe_stdouts, req, post>>

\* lines 125-127: build the command line and start the tool
download_spawn(c) ==
  /\ pc[c] = "dl_spawn"
  /\ IF JoinCommand(req[c].body) = "raise"
     THEN /\ Leave(c, create_error_response(500), <<"raise">>)
          /\ UNCHANGED proc
     ELSE /\ proc' = [proc EXCEPT ![c] = "running"]
          /\ pc' = [pc EXCEPT ![c] = "dl_wait"]
          /\ Log(c, "spawn")
          /\ UNCHANGED <<resp, temp_dir, downloaded_files, dirs>>
  /\ UNCHANGED <<CONOHA_UPLOAD_URL, CONOHA_API_KEY, probe_stdouts, req, post>>

\* The running tool writes a file under the path of its -o template.
tool_write(c) ==
  /\ pc[c] = "dl_wait"
  /\ proc[c] = "running"
  /\ dirs[temp_dir[c]].exists
  /\ \E f \in Files :
       /\ f.writer = c
       /\ f.n = Cardinality(WrittenBy(c)) + 1
       /\ dirs' = [dirs EXCEPT ![temp_dir[c]].files = @ \cup {f}]
  /\ UNCHANGED <<CONOHA_UPLOAD_URL, CONOHA_API_KEY, probe_stdouts, pc, req, proc, temp_dir,
                 downloaded_files, post, resp, hist>>

\* Variant: no timeout= argument; the wait ends only once the tool has
\* produced output and exits by itself.
download_exit_no_deadline(c) ==
  /\ pc[c] = "dl_wait"
  /\ proc[c] = "running"
  /\ dirs[temp_dir[c]].files # {}
  /\ proc' = [proc EXCEPT ![c] = "exited"]
  /\ \E o \in ToolOutcomes :
       IF RunRaises(o)
       THEN Leave(c, create_error_response(500), <<"exit_" \o o>>)
       ELSE /\ pc' = [pc EXCEPT ![c] = "dl_list"]
            /\ Log(c, "exit_" \o o)
            /\ UNCHANGED <<resp, temp_dir, downloaded_files, dirs>>
  /\ UNCHANGED <<CONOHA_UPLOAD_URL, CONOHA_API_KEY, probe_stdouts, req, post>>

\* Variant: a failed tool run is started again.
download_exit_retry(c) ==
  /\ pc[c] = "dl_wait"
  /\ proc[c] = "running"
  /\ proc' = [proc EXCEPT ![c] = "exited"]
  /\ \E o \in ToolOutcomes :
       /\ pc' = [pc EXCEPT ![c] = IF RunRaises(o) THEN "dl_spawn" ELSE "dl_list"]
       /\ Log(c, "exit_" \o o)
       /\ UNCHANGED <<resp, temp_dir, downloaded_files, dirs>>
  /\ UNCHANGED <<CONOHA_UPLOAD_URL, CONOHA_API_KEY, probe_stdouts, req, post>>

\* lines 127, 137-138: the tool exits or the 1800 s deadline kills it
download_exit(c) ==
  /\ pc[c] = "dl_wait"
  /\ proc[c] = "running"
  /\ proc' = [proc EXCEPT ![c] = "exited"]
  /\ \E o \in ToolOutcomes :
       IF RunRaises(o)
       THEN Leave(c, create_error_response(500), <<"exit_" \o o>>)
       ELSE /\ pc' = [pc EXCEPT ![c] = "dl_list"]
            /\ Log(c, "exit_" \o o)
            /\ UNCHANGED <<resp, temp_dir, downloaded_files, dirs>>
  /\ UNCHANGED <<CONOHA_UPLOAD_URL, CONOHA_API_KEY, probe_stdouts, req, post>>

\* line 133: file_name = downloaded_files[0]
\* Variant: the last entry of the listing is taken.
file_name_last(q) == q[Len(q)]
file_name(q) == q[1]

\* open(file_path, 'rb'), line 142: the file must be there
CanOpen(name, f) == dirs[name].exists /\ f \in dirs[name].files

\* Variant: the upload block sits outside the with block, so the workspace
\* is removed before requests.post starts.
download_list_then_exit(c) ==
  /\ pc[c] = "dl_list"
  /\ IF ~dirs[temp_dir[c]].exists
     THEN /\ Leave(c, create_error_response(500), <<"list_raise">>)
          /\ UNCHANGED post
     ELSE \E q \in Listings(dirs[temp_dir[c]].files) :
            IF q = <<>>
            THEN /\ Leave(c, create_error_response(500), <<"list_empty">>)
                 /\ UNCHANGED post
            ELSE /\ downloaded_files' = [downloaded_files EXCEPT ![c] = q]
                 /\ post' = [post EXCEPT ![c] =
                               [state |-> "inflight", file |-> file_name(q),
                                status |-> 0, body |-> "none"]]
                 /\ pc' = [pc EXCEPT ![c] = "dl_upload"]
                 /\ hist' = [hist EXCEPT ![c] = @ \o <<"list", "post">>]
                 /\ dirs' = Cleanup(temp_dir[c])
                 /\ UNCHANGED <<resp, temp_dir>>
  /\ UNCHANGED <<CONOHA_UPLOAD_URL, CONOHA_API_KEY, probe_stdouts, req, proc>>

\* Variant: an empty listing is answered as a success, nothing uploaded.
download_list_empty_ok(c) ==
  /\ pc[c] = "dl_list"
  /\ IF ~dirs[temp_dir[c]].exists
     THEN /\ Leave(c, create_error_response(500), <<"list_raise">>)
          /\ UNCHANGED post
     ELSE \E q \in Listings(dirs[temp_dir[c]].files) :
            IF q = <<>>
            THEN /\ Leave(c, [status |-> 200, body |-> "success", formats |-> <<>>],
                          <<"list_empty">>)
                 /\ UNCHANGED post
            ELSE /\ downloaded_files' = [downloaded_files EXCEPT ![c] = q]
                 /\ post' = [post EXCEPT ![c] =
                               [state |-> "inflight", file |-> file_name(q),
                                status |-> 0, body |-> "none"]]
                 /\ pc' = [pc EXCEPT ![c] = "dl_upload"]
                 /\ hist' = [hist EXCEPT ![c] = @ \o <<"list", "post">>]
                 /\ UNCHANGED <<resp, temp_dir, dirs>>
  /\ UNCHANGED <<CONOHA_UPLOAD_URL, CONOHA_API_KEY, probe_stdouts, req, proc>>

\* lines 129-145: os.listdir(temp_dir), the choice of the first entry,
\* open(file_path) and the start of requests.post
download_list(c) ==
  /\ pc[c] = "dl_list"
  /\ IF ~dirs[temp_dir[c]].exists
     THEN /\ Leave(c, create_error_response(500), <<"list_raise">>)
          /\ UNCHANGED post
     ELSE \E q \in Listings(dirs[temp_dir[c]].files) :
            IF q = <<>>
            THEN /\ Leave(c, create_error_response(500), <<"list_empty">>)
                 /\ UNCHANGED post
            ELSE IF ~CanOpen(temp_dir[c], file_name(q))
            THEN /\ Leave(c, create_error_response(500), <<"list", "open_raise">>)
                 /\ UNCHANGED post
            ELSE /\ downloaded_files' = [downloaded_files EXCEPT ![c] = q]
                 /\ post' = [post EXCEPT ![c] =
                               [state |-> "inflight", file |-> file_name(q),
                                status |-> 0, body |-> "none"]]
                 /\ pc' = [pc EXCEPT ![c] = "dl_upload"]
                 /\ hist' = [hist EXCEPT ![c] = @ \o <<"list", "post">>]
                 /\ UNCHANGED <<resp, temp_dir, dirs>>
  /\ UNCHANGED <<CONOHA_UPLOAD_URL, CONOHA_API_KEY, probe_stdouts, req, proc>>

\* lines 145-151: the endpoint answers, or the 600 s deadline or the
\* connection fails; raise_for_status, response.json(), jsonify.  The
\* request is over: post[c] keeps the answer, no longer the file.
download_response(c) ==
  /\ pc[c] = "dl_upload"
  /\ post[c].state = "inflight"
  /\ \/ /\ post' = [post EXCEPT ![c] = [NoPost EXCEPT !.state = "failed"]]
        /\ Leave(c, create_error_response(500), <<"post_failed">>)
     \/ \E s \in UploadStatuses, b \in UploadBodies :
          /\ post' = [post EXCEPT ![c] = [state |-> "answered", file |-> NoFile,
                                           status |-> s, body |-> b]]
          /\ IF RaiseForStatus(s) \/ JsonLoads(b) = "raise"
             THEN Leave(c, create_error_response(500), <<"post_answered">>)
             ELSE Leave(c, [status |-> s, body |-> Jsonify(JsonLoads(b)),
                            formats |-> <<>>], <<"post_answered">>)
  /\ UNCHANGED <<CONOHA_UPLOAD_URL, CONOHA_API_KEY, probe_stdouts, req, proc>>

Next ==
  \/ \E c \in Calls : update_yt_dlp(c)
  \/ \E c \in Calls : update_spawn(c)
  \/ \E c \in Calls : update_exit(c)
  \/ \E c \in Calls : get_formats(c)
  \/ \E c \in Calls : formats_spawn(c)
  \/ \E c \in Calls : formats_exit(c)
  \/ \E c \in Calls : download_video(c)
  \/ \E c \in Calls : download_mkdtemp(c)
  \/ \E c \in Calls : download_spawn(c)
  \/ \E c \in Calls : tool_write(c)
  \/ \E c \in Calls : download_exit(c)
  \/ \E c \in Calls : download_list(c)
  \/ \E c \in Calls : download_response(c)

Spec == Init /\ [][Next]_vars

\* /formats calls alone, against unchanging metadata.
NextProbe ==
  \/ \E c \in Calls : get_formats(c)
  \/ \E c \in Calls : formats_spawn(c)
  \/ \E c \in Calls : formats_exit(c)

SpecProbe == InitProbe /\ [][NextProbe]_vars

\* The steps of a /download call past validation.  The handler's thread
\* keeps running, subprocess.run returns at the tool's exit or at its
\* 1800 s deadline, requests.post returns at the answer or at its 600 s
\* deadline: a step that stays possible is eventually taken.  Nothing
\* obliges the tool to write a file.
DownloadStep(c) ==
  \/ download_mkdtemp(c)
  \/ download_spawn(c)
  \/ download_exit(c)
  \/ download_list(c)
  \/ download_response(c)

NextDownload ==
  \/ \E c \in Calls : download_video(c)
  \/ \E c \in Calls : DownloadStep(c)
  \/ \E c \in Calls : tool_write(c)

\* /download calls alone, under that scheduling.
SpecLive ==
  /\ Init
  /\ [][NextDownload]_vars
  /\ \A c \in Calls : WF_vars(DownloadStep(c))

\* =============================================================== claims
Has(h, e) == \E i \in DOMAIN h : h[i] = e
\* The workspaces on disk that call c created.
Owned(c) == {d \in DirNames : dirs[d].exists /\ dirs[d].owner = c}
Unset(v) == v \in {"None", ""}
Envelope(status) == [status |-> status, body |-> "envelope", formats |-> <<>>]
IsDownload(c) == req[c].kind = "download"

\* C1: once a /download handler has returned, whatever the outcome, the
\* workspace directory the call created is no longer on disk.
C1_WorkspaceGone ==
  \A c \in Calls : pc[c] = "returned" => Owned(c) = {}

\* C1 witness: a call that created a workspace, uploaded and has returned.
C1_Witness ==
  \E c \in Calls : /\ pc[c] = "returned"
                   /\ Has(hist[c], "workspace")
                   /\ Has(hist[c], "post_answered")
                   /\ resp[c].status = 201

\* A body that is absent or is a JSON object without the key url.
NoUrlField(b) == b \in {"absent", "obj_empty", "obj_other"}

\* C2 as stated: a /formats or /download request whose body is absent or
\* lacks url is answered 400 with the error envelope and spawns nothing,
\* whatever the configuration.
C2_Original ==
  \A c \in Calls :
    (req[c].kind \in {"formats", "download"} /\ NoUrlField(req[c].body))
      => /\ pc[c] = "returned"
         /\ resp[c] = Envelope(400)
         /\ proc[c] = "none"

\* C2 amended: such a request spawns nothing and is answered with the error
\* envelope: 400 for /formats, and for /download 400 when the upload URL and
\* the secret are both set, 500 (the configuration error) when one is unset.
C2_Amended ==
  \A c \in Calls :
    (req[c].kind \in {"formats", "download"} /\ NoUrlField(req[c].body))
      => /\ pc[c] = "returned"
         /\ proc[c] = "none"
         /\ resp[c] = IF IsDownload(c)
                         /\ (Unset(CONOHA_UPLOAD_URL) \/ Unset(CONOHA_API_KEY))
                      THEN Envelope(500) ELSE Envelope(400)

\* C2 witness: a configured server has answered 400 to a /download whose
\* body is an object without url.
C2_Witness ==
  \E c \in Calls : /\ IsDownload(c)
                   /\ req[c].body = "obj_other"
                   /\ resp[c] = Envelope(400)
                   /\ ~Unset(CONOHA_UPLOAD_URL) /\ ~Unset(CONOHA_API_KEY)

\* C3: an /update request whose X-API-KEY is missing, empty or different from
\* the configured secret (the secret may itself be unset) is answered 401 and
\* starts no process; a process exists only for a key equal to the secret.
C3_UpdateNeedsKey ==
  \A c \in Calls :
    req[c].kind = "update" =>
      /\ (Unset(req[c].key) \/ req[c].key # CONOHA_API_KEY)
           => /\ pc[c] = "returned"
              /\ resp[c] = Envelope(401)
              /\ proc[c] = "none"
      /\ (proc[c] # "none" \/ Has(hist[c], "spawn"))
           => /\ req[c].key = CONOHA_API_KEY
              /\ ~Unset(req[c].key)

\* C3 witness: with the secret unset, a request without the header has been
\* refused.
C3_Witness ==
  \E c \in Calls : /\ req[c].kind = "update"
                   /\ req[c].key = "None"
                   /\ CONOHA_API_KEY = "None"
                   /\ resp[c] = Envelope(401)

\* C4: with the upload URL or the secret unset, every /download call is
\* answered with the error envelope and has created no workspace, started no
\* process and issued no upload.
C4_ConfigFirst ==
  (Unset(CONOHA_UPLOAD_URL) \/ Unset(CONOHA_API_KEY)) =>
    \A c \in Calls :
      IsDownload(c) =>
        /\ pc[c] = "returned"
        /\ resp[c] = Envelope(500)
        /\ proc[c] = "none"
        /\ post[c] = NoPost
        /\ temp_dir[c] = NoDirName
        /\ Owned(c) = {}
        /\ hist[c] = <<"config_fail">>

\* C4 witness: the secret is unset, the URL is set, and a /download with a
\* well-formed body has been refused.
C4_Witness ==
  \E c \in Calls : /\ IsDownload(c)
                   /\ req[c].body = "obj_url"
                   /\ Unset(CONOHA_API_KEY) /\ ~Unset(CONOHA_UPLOAD_URL)
                   /\ pc[c] = "returned"

\* The place of a step in the order creation, tool, listing, upload, teardown.
StepRank(e) ==
  CASE e = "workspace" -> 1
    [] e \in {"spawn", "raise"} -> 2
    [] e \in {"exit_ok", "exit_nonzero", "exit_timeout"} -> 3
    [] e \in {"list", "list_empty", "list_raise"} -> 4
    [] e \in {"post", "open_raise"} -> 5
    [] e \in {"post_answered", "post_failed"} -> 6
    [] e = "teardown" -> 7
    [] OTHER -> 0

\* C5: in a /download call the workspace is listed and the upload is in
\* flight only when the tool process has terminated, and the call's steps
\* come in the order creation, tool, listing, upload, teardown.
C5_Sequential ==
  \A c \in Calls :
    IsDownload(c) =>
      /\ post[c].state = "inflight" => proc[c] = "exited"
      /\ downloaded_files[c] # <<>> => proc[c] = "exited"
      /\ (Has(hist[c], "list") \/ Has(hist[c], "list_empty")) => Has(hist[c], "exit_ok")
      /\ Has(hist[c], "post") => Has(hist[c], "list")
      /\ \A i, j \in DOMAIN hist[c] :
           i < j => StepRank(hist[c][i]) < StepRank(hist[c][j])

\* C5 witness: an upload in flight, after the tool wrote a file and exited.
C5_Witness ==
  \E c \in Calls : /\ pc[c] = "dl_upload"
                   /\ post[c].state = "inflight"
                   /\ proc[c] = "exited"
                   /\ hist[c] = <<"valid", "workspace", "spawn", "exit_ok", "list", "post">>

\* C6: when the tool of a /download call times out or exits non-zero, the
\* handler returns the 500 error envelope, no listing is used, no upload is
\* issued, and the workspace is removed.
C6_ToolFailure ==
  \A c \in Calls :
    (IsDownload(c) /\ (Has(hist[c], "exit_timeout") \/ Has(hist[c], "exit_nonzero")))
      => /\ pc[c] = "returned"
         /\ resp[c] = Envelope(500)
         /\ post[c] = NoPost
         /\ downloaded_files[c] = <<>>
         /\ ~Has(hist[c], "list") /\ ~Has(hist[c], "post")
         /\ Owned(c) = {}

\* C6 witness: a /download call whose tool exited non-zero has returned.
C6_Witness ==
  \E c \in Calls : /\ IsDownload(c)
                   /\ Has(hist[c], "exit_nonzero")
                   /\ pc[c] = "returned"

\* C7: the step that lists the workspace after a successful tool exit, when
\* the workspace holds no file, ends the call with the 500 error envelope
\* and without an upload.
C7_NoArtifact ==
  [][\A c \in Calls :
       (/\ pc[c] = "dl_list"
        /\ pc'[c] # "dl_list"
        /\ dirs[temp_dir[c]].exists
        /\ dirs[temp_dir[c]].files = {})
         => /\ pc'[c] = "returned"
            /\ resp'[c] = Envelope(500)
            /\ post'[c] = NoPost]_vars

\* C7 witness: a call whose tool exited with status zero and whose listing
\* was empty has returned.
C7_Witness ==
  \E c \in Calls : /\ Has(hist[c], "exit_ok")
                   /\ Has(hist[c], "list_empty")
                   /\ pc[c] = "returned"

\* C8 as stated: whatever the endpoint answers, a 2xx status comes back with
\* the same status and the same JSON body, any other status as the 500 error
\* envelope.
C8_PassThrough ==
  \A c \in Calls :
    (pc[c] = "returned" /\ post[c].state = "answered") =>
      IF 200 <= post[c].status /\ post[c].status < 300
      THEN /\ resp[c].status = post[c].status
           /\ resp[c].body # "envelope"
           /\ JsonLoads(resp[c].body) = JsonLoads(post[c].body)
      ELSE resp[c] = Envelope(500)

\* C9: in every interleaving, a call in flight owns its workspace alone: the
\* directory is there and is the one it created, holds only files of its own
\* tool, the listing and the upload carry only such files, and no other call
\* has the same directory.
C9_Exclusive ==
  \A c \in Calls :
    temp_dir[c] # NoDirName =>
      /\ dirs[temp_dir[c]].exists
      /\ dirs[temp_dir[c]].owner = c
      /\ \A f \in dirs[temp_dir[c]].files : f.writer = c
      /\ \A i \in DOMAIN downloaded_files[c] : downloaded_files[c][i].writer = c
      /\ post[c].state = "inflight"
           => /\ post[c].file.writer = c
              /\ post[c].file \in dirs[temp_dir[c]].files
      /\ \A o \in Calls \ {c} : temp_dir[o] # temp_dir[c]

\* C9 witness: two calls are in flight at once, one uploading and one whose
\* tool is still writing, each with files in its own workspace.
C9_Witness ==
  \E c, o \in Calls : /\ c # o
                      /\ pc[c] = "dl_upload" /\ pc[o] = "dl_wait"
                      /\ dirs[temp_dir[c]].files # {}
                      /\ dirs[temp_dir[o]].files # {}

\* How often step e occurs in h.
Count(h, e) == Cardinality({i \in DOMAIN h : h[i] = e})

\* C11: nothing is retried: a call of any of the three handlers starts its
\* subprocess at most once, and a /download call issues at most one upload,
\* whatever the outcome of either.
C11_NoRetry ==
  \A c \in Calls :
    /\ Count(hist[c], "spawn") <= 1
    /\ Count(hist[c], "post") <= 1
    /\ Count(hist[c], "exit_ok") + Count(hist[c], "exit_nonzero")
         + Count(hist[c], "exit_timeout") <= Count(hist[c], "spawn")
    /\ Count(hist[c], "post_answered") + Count(hist[c], "post_failed")
         <= Count(hist[c], "post")

\* C11 witness: a /download call whose upload failed has returned after one
\* tool run and one upload, while another call's tool has timed out.
C11_Witness ==
  \E c, o \in Calls : /\ pc[c] = "returned"
                      /\ Has(hist[c], "post_failed")
                      /\ Count(hist[c], "spawn") = 1
                      /\ Count(hist[c], "post") = 1
                      /\ pc[o] = "returned"
                      /\ Has(hist[o], "exit_timeout")

\* C12: every /download call past validation eventually returns a response
\* (Done or Failed), given that the tool exits or hits its deadline and the
\* upload is answered or hits its deadline; once it has returned, the call
\* takes no further step: no process, no upload, nothing.  Stated for the
\* finitely many calls of a run: from some point on no call is in flight
\* (a call stuck in Downloading or Uploading would be in flight for ever),
\* and a returned call stays as it is.
C12_Terminates ==
  /\ <>[](\A c \in Calls : pc[c] \in {"idle", "returned"})
  /\ [][\A c \in Calls :
         pc[c] = "returned" => /\ pc'[c] = "returned"
                               /\ proc'[c] = proc[c]
                               /\ post'[c] = post[c]
                               /\ resp'[c] = resp[c]
                               /\ hist'[c] = hist[c]]_vars

\* C12 witness: one call is Done (upload answered 201) and another Failed
\* (tool timed out), both returned.
C12_Witness ==
  \E c, o \in Calls : /\ pc[c] = "returned" /\ pc[o] = "returned"
                      /\ resp[c].status = 201
                      /\ Has(hist[o], "exit_timeout")
                      /\ resp[o] = Envelope(500)

\* The document the probe prints, where it is the same at each invocation.
TheManifest == CHOOSE m \in probe_stdouts : TRUE
IsFormats(c) == req[c].kind = "formats"
ProbeSucceeded(c) == IsFormats(c) /\ pc[c] = "returned" /\ Has(hist[c], "exit_ok")
HasSize(v) == v # NoSize

\* C13: a /formats call whose probe printed a manifest of n >= 0 entries, each
\* with a format id, answers 200 with exactly n descriptors, the i-th having
\* the id of the i-th entry; so zero entries give a success with an empty
\* list.  No other probe output gives a success.
C13_OrderKept ==
  \A c \in Calls :
    ProbeSucceeded(c) =>
      LET m == TheManifest IN
      IF m.kind = "manifest"
         /\ \A i \in DOMAIN m.formats : m.formats[i].format_id # "None"
      THEN /\ resp[c].status = 200
           /\ resp[c].body = "formats"
           /\ Len(resp[c].formats) = Len(m.formats)
           /\ \A i \in DOMAIN m.formats : resp[c].formats[i].id = m.formats[i].format_id
      ELSE resp[c] = Envelope(500)

\* C13 witness: a manifest listing id 140 before id 18 has been answered.
C13_Witness ==
  \E c \in Calls : /\ ProbeSucceeded(c)
                   /\ Len(TheManifest.formats) = 2
                   /\ TheManifest.formats[1].format_id = "140"
                   /\ TheManifest.formats[2].format_id = "18"
                   /\ resp[c].status = 200

\* C14 as stated: the note of a descriptor has the size suffix exactly when
\* its manifest entry reports a byte size, exact or approximate, whatever the
\* reported value, 0 included.
C14_Original ==
  \A c \in Calls :
    (ProbeSucceeded(c) /\ resp[c].body = "formats") =>
      \A i \in DOMAIN resp[c].formats :
        LET f == TheManifest.formats[i] IN
        (resp[c].formats[i].note.mb # NoSize)
          <=> (HasSize(f.filesize) \/ HasSize(f.filesize_approx))

\* C14 amended: the note has the size suffix exactly when the entry reports a
\* non-zero byte size, exact or approximate (a reported 0 counts as missing);
\* two entries that agree on resolution and extension get notes that differ
\* at most by the suffix.
C14_Amended ==
  \A c \in Calls :
    (ProbeSucceeded(c) /\ resp[c].body = "formats") =>
      /\ \A i \in DOMAIN resp[c].formats :
           LET f == TheManifest.formats[i] IN
           (resp[c].formats[i].note.mb # NoSize)
             <=> \/ (HasSize(f.filesize) /\ f.filesize # 0)
                 \/ (HasSize(f.filesize_approx) /\ f.filesize_approx # 0)
      /\ \A i, j \in DOMAIN resp[c].formats :
           LET f == TheManifest.formats[i]
               g == TheManifest.formats[j]
           IN (f.resolution = g.resolution /\ f.ext = g.ext)
                => /\ resp[c].formats[i].note.resolution = resp[c].formats[j].note.resolution
                   /\ resp[c].formats[i].note.ext = resp[c].formats[j].note.ext

\* C14 witness: a manifest of two entries equal but for the size, which the
\* second lacks, has been answered: 1.5 MB on the first note, no suffix on
\* the second.
C14_Witness ==
  \E c \in Calls :
    /\ ProbeSucceeded(c) /\ resp[c].body = "formats"
    /\ Len(resp[c].formats) = 2
    /\ TheManifest.formats[1].filesize = 1572864
    /\ TheManifest.formats[2] = [TheManifest.formats[1] EXCEPT !.filesize = NoSize]
    /\ resp[c].formats[1].note.mb = 150
    /\ resp[c].formats[2].note.mb = NoSize

\* C15: two /formats calls for the same URL whose probes ended alike and
\* printed the same manifest get the same response, hence the same set of
\* ids; and a /formats call leaves the directories on disk alone.
C15_SameAnswer ==
  /\ \A c, o \in Calls :
       (/\ IsFormats(c) /\ IsFormats(o)
        /\ pc[c] = "returned" /\ pc[o] = "returned"
        /\ UrlStrip(req[c].body) = "ok" /\ UrlStrip(req[o].body) = "ok"
        /\ hist[c] = hist[o])
         => /\ resp[c] = resp[o]
            /\ {resp[c].formats[i].id : i \in DOMAIN resp[c].formats}
                 = {resp[o].formats[i].id : i \in DOMAIN resp[o].formats}
  /\ \A d \in DirNames : dirs[d] = NoDir

\* C15 witness: two calls have both been answered with a non-empty list.
C15_Witness ==
  \E c, o \in Calls : /\ c # o
                      /\ ProbeSucceeded(c) /\ ProbeSucceeded(o)
                      /\ resp[c].formats # <<>>
                      /\ resp[o].formats # <<>>

\* C16: when the listing after a successful tool exit is not empty, exactly
\* one upload is issued; the file it carries is the first entry of the
\* listing and lies in the call's workspace; when the call has returned,
\* every file its tool wrote, uploaded or not, is gone.
C16_FirstListed ==
  \A c \in Calls :
    IsDownload(c) =>
      /\ Has(hist[c], "list") => Count(hist[c], "post") = 1
      /\ pc[c] = "dl_upload"
           => /\ post[c].state = "inflight"
              /\ Len(downloaded_files[c]) = Cardinality(dirs[temp_dir[c]].files)
              /\ post[c].file = downloaded_files[c][1]
              /\ post[c].file \in dirs[temp_dir[c]].files
      /\ pc[c] = "returned" => WrittenBy(c) = {}

\* C16 witness: an upload in flight from a workspace of two files, listed
\* with the file written second in the first place.
C16_Witness ==
  \E c \in Calls : /\ pc[c] = "dl_upload"
                   /\ Len(downloaded_files[c]) = 2
                   /\ downloaded_files[c][1].n = 2
                   /\ post[c].file.n = 2

\* C17: a /download call returns a response that is no error only after, in
\* this order, the configuration test passed, the tool exited with status
\* zero, the listing was not empty and its one upload was answered with a
\* status that is no error.
C17_SuccessOnlyIf ==
  \A c \in Calls :
    (IsDownload(c) /\ pc[c] = "returned" /\ resp[c].body \notin {"envelope", "unhandled"})
      => /\ ~Unset(CONOHA_UPLOAD_URL) /\ ~Unset(CONOHA_API_KEY)
         /\ hist[c] = <<"valid", "workspace", "spawn", "exit_ok", "list", "post",
                        "post_answered", "teardown">>
         /\ proc[c] = "exited"
         /\ post[c].state = "answered"
         /\ post[c].status < 400
         /\ resp[c].status = post[c].status

\* C17 witness: a /download call has returned the endpoint's 304 answer.
C17_Witness ==
  \E c \in Calls : /\ IsDownload(c)
                   /\ pc[c] = "returned"
                   /\ resp[c].status = 304
                   /\ resp[c].body \notin {"envelope", "unhandled"}

\* C18: while the upload is in flight the workspace and the file being sent
\* are on disk; the workspace is removed only once the upload has been
\* answered or has failed.
C18_ArtifactHeld ==
  \A c \in Calls :
    /\ post[c].state = "inflight"
         => /\ temp_dir[c] # NoDirName
            /\ dirs[temp_dir[c]].exists
            /\ post[c].file \in dirs[temp_dir[c]].files
            /\ ~Has(hist[c], "teardown")
            /\ Owned(c) = {temp_dir[c]}
    /\ (Has(hist[c], "post") /\ Has(hist[c], "teardown"))
         => post[c].state \in {"answered", "failed"}

\* C18 witness: an upload is in flight while another call, whose upload has
\* failed, has removed its own workspace.
C18_Witness ==
  \E c, o \in Calls : /\ post[c].state = "inflight"
                      /\ dirs[temp_dir[c]].exists
                      /\ post[o].state = "failed"
                      /\ Has(hist[o], "teardown")

\* The responses of a /formats call whose probe exited with status zero.
FormatsAnswers ==
  {Envelope(500)} \cup
  {[status |-> 200, body |-> "formats", formats |-> SelectableFormats(o.formats)] :
     o \in {x \in ProbeStdouts : x.kind = "manifest" /\ ~FormatsRaise(x.formats)}}

\* C19: a /formats call has no workspace and no upload and, whatever the
\* configuration, its outcome is settled by its body and its probe alone:
\* 400 without url, otherwise the probe is started and the answer is the
\* projection of its output or the 500 envelope.
C19_FormatsApart ==
  \A c \in Calls :
    IsFormats(c) =>
      /\ temp_dir[c] = NoDirName /\ Owned(c) = {}
      /\ downloaded_files[c] = <<>>
      /\ post[c] = NoPost
      /\ ~Has(hist[c], "workspace") /\ ~Has(hist[c], "post")
      /\ CASE NoUrlField(req[c].body) -> resp[c] = Envelope(400) /\ proc[c] = "none"
           [] UrlStrip(req[c].body) = "ok" ->
                \/ pc[c] = "fmt_spawn" /\ hist[c] = <<"valid">>
                \/ pc[c] = "fmt_wait" /\ hist[c] = <<"valid", "spawn">>
                \/ /\ pc[c] = "returned"
                   /\ \/ /\ hist[c] = <<"valid", "spawn", "exit_ok">>
                         /\ resp[c] \in FormatsAnswers
                      \/ /\ hist[c] \in {<<"valid", "spawn", "exit_nonzero">>,
                                          <<"valid", "spawn", "exit_timeout">>}
                         /\ resp[c] = Envelope(500)
           [] OTHER -> resp[c].body = "unhandled" /\ proc[c] = "none"

\* C19 witness: with neither the upload URL nor the secret set, a /formats
\* call has been answered with a list of formats.
C19_Witness ==
  \E c \in Calls : /\ IsFormats(c)
                   /\ Unset(CONOHA_UPLOAD_URL) /\ Unset(CONOHA_API_KEY)
                   /\ resp[c].status = 200
                   /\ resp[c].formats # <<>>

\* C10 as stated: every request ends with a response the handler built
\* itself; no exception leaves a handler.
C10_NoEscape ==
  \A c \in Calls : pc[c] = "returned" => resp[c].body # "unhandled"

====
